---- MODULE Spec2Model ----
(***************************************************************************)
(* Model of the process activity monitor of fas-rs                         *)
(* (src/src/cpu_common/process_monitor.rs): the owning ProcessMonitor      *)
(* handle, the "ProcessMonitor" worker thread running monitor_thread, the  *)
(* two flume channels between them, and the part of the kernel state the   *)
(* worker reads (/proc/<pid>/task and /proc/<tid>/schedstat).              *)
(*                                                                         *)
(* Time is counted in milliseconds.  The schedstat counter and the tick of *)
(* try_calculate are both scaled from nanoseconds to milliseconds, which   *)
(* leaves the quotient cputime_slice / elapsed_ticks unchanged.  The u64   *)
(* of the source is kept as a wrapping unsigned word, narrowed so that     *)
(* TLC's integers can hold it (see U64_MODULUS).  The clock advances in    *)
(* thread::sleep only, by the 300 ms asked for: two readings of            *)
(* Instant::now() inside one loop iteration are equal.                     *)
(***************************************************************************)
EXTENDS Integers, Sequences, FiniteSets, TLC

\* ------------------------------------------------------------------ bounds
\* Thread ids 1..NumTids.  Process A (pid 1) owns tids 1..NumTids-1, process B
\* is single-threaded and owns tid NumTids (a main thread's tid is its pid).
NumTids == 7
\* Owner API calls (set_pid, update_util_max), kernel events and worker sleeps
\* in one behaviour of Spec.
MaxCalls == 3
MaxEnv == 1
MaxSleeps == 4
\* The same three budgets in one behaviour of SpecTrack.
TrackCalls == 2
TrackEnv == 1
TrackSleeps == 8
\* Threads process A starts with in Spec (SpecTrack starts it with any
\* number of them).
StartThreads == 2
\* Worker sleeps in one behaviour of SpecLong, and the threads process A
\* starts with there.
LongSleeps == 12
LongThreads == 1
\* CPU time (ms) a KernelRun event credits to one thread, and the CPU time a
\* thread that exists at the start has already consumed.
CpuQuantum == 1200

\* ------------------------------------------------------- program constants
HOT_K == 5
SLEEP_MS == 300
FULL_UPDATE_MS == 1000
\* tick_per_sec (1e9 ns ticks per second), per millisecond, at the model's scale
TICK_PER_MS == 1
\* u64: 2^64 in the source; 24 bits here, far above every counter of the model
U64_MODULUS == 2^24
U64_MAX == U64_MODULUS - 1

Tids == 1..NumTids
\* a process's pid is the thread id of its main thread
PidA == CHOOSE tid \in Tids : \A other \in Tids : tid <= other
PidB == NumTids
Pids == {PidA, PidB}
TidsOf(pid) == IF pid = PidB THEN {PidB} ELSE Tids \ {PidB}

\* Option<T>
None == <<>>
Some(x) == <<x>>
Unwrap(o) == o[1]
Targets == {None} \cup {Some(p) : p \in Pids}

\* update_util_max has not returned since the owner's last call began
NotPolled == [done |-> FALSE, value |-> None]

EmptyMap == [t \in {} |-> 0]
Min(a, b) == IF a < b THEN a ELSE b

VARIABLES
    \* ---- kernel
    alive,            \* thread ids that currently exist
    cputime,          \* schedstat field 1 of every thread id
    overflow_checks,  \* Some(whether the build panics on integer overflow), None
                      \* until an overflow has shown which build runs
    \* ---- ProcessMonitor handle and its owner
    owner_pc,         \* "idle" | "set_pid" | "poll" | "dropping" | "dropped" | "panicked"
    stop,             \* Arc<AtomicBool>
    ctl_slot,         \* the blocked send of the bounded(0) channel: <<>> or <<v>>
    ctl_taken,        \* the receiver took the blocked send's message
    util_queue,       \* the unbounded result channel
    poll_last,        \* Iterator::last's accumulator inside update_util_max
    util_ret,         \* what the last update_util_max returned
    \* ---- monitor_thread
    wpc,              \* "loop" | "try_recv" | "full_update" | "publish" | "sleep" |
                      \* "exited" | "panicked" (overflow) | "send_failed" (panic of
                      \* the unwrap at line 169)
    current_pid, last_full_update, all_trackers, top_trackers,
    now,              \* Instant::now()
    \* ---- bounds and history
    budget,           \* calls, kernel events and sleeps left
    calls,            \* arguments of the set_pid calls, in call order
    applied,          \* retargets the worker applied, in order
    returned,         \* number of set_pid calls that returned
    published,        \* number of values sent on the result channel
    pub_at_ret,       \* published when the last update_util_max returned
    pub_at_prev_ret,  \* published when the one before returned
    refresh           \* record of the last two full refreshes, and the times of
                      \* the last two calls of get_thread_ids (-1: none yet)

kernelVars == <<alive, cputime>>
ownerVars == <<owner_pc, poll_last, util_ret, calls, returned, pub_at_ret, pub_at_prev_ret>>
workerVars == <<wpc, current_pid, last_full_update, all_trackers, top_trackers, now, refresh>>
vars == <<alive, cputime, overflow_checks, owner_pc, stop, ctl_slot, ctl_taken,
          util_queue, poll_last, util_ret, wpc, current_pid, last_full_update,
          all_trackers, top_trackers, now, budget, calls, applied, returned,
          published, pub_at_ret, pub_at_prev_ret, refresh>>

\* ------------------------------------------------------------ kernel reads
\* get_thread_cpu_time: the first field of /proc/<tid>/schedstat, 0 when the
\* record cannot be read or parsed.
get_thread_cpu_time(tid) == IF tid \in alive THEN cputime[tid] ELSE 0

\* get_thread_ids: Ok(the task directory's entries) or Err when the directory
\* cannot be read.
get_thread_ids_lossy(pid) == Some(alive \cap TidsOf(pid))
get_thread_ids(pid) ==
    IF alive \cap TidsOf(pid) = {} THEN None ELSE Some(alive \cap TidsOf(pid))

\* ------------------------------------------------------------ UsageTracker
\* UsageTracker::new.  born is history, not a field of the struct: the number
\* of retargets the worker had applied when the tracker was created.
NewTrackerUnread(tid) ==
    [tid |-> tid, last_cputime |-> 0, read_timer |-> now, born |-> Len(applied)]
NewTracker(tid) ==
    [tid |-> tid, last_cputime |-> get_thread_cpu_time(tid), read_timer |-> now,
     born |-> Len(applied)]

\* new_cputime - self.last_cputime on u64 overflows exactly when it is
\* negative; the build decides what an overflow does: it panics (with overflow
\* checks, the default of a debug build) or wraps (without, the default of a
\* release build).
Builds == IF overflow_checks = None THEN BOOLEAN ELSE {Unwrap(overflow_checks)}
SubOverflows(new_cputime, last) == new_cputime < last
WrappingSub(new_cputime, last) == (new_cputime - last + U64_MODULUS) % U64_MODULUS

\* (cputime_slice as f64 / elapsed_ticks) as u64: the cast truncates, sends
\* NaN (0.0 / 0.0) to 0 and saturates +inf (x / 0.0) to u64::MAX.
RatioAsU64(cputime_slice, elapsed_ticks) ==
    IF elapsed_ticks = 0
    THEN (IF cputime_slice = 0 THEN 0 ELSE U64_MAX)
    ELSE Min(cputime_slice \div elapsed_ticks, U64_MAX)

\* UsageTracker::try_calculate(mut self): self is a copy of the tracker it is
\* called on (UsageTracker is Copy and the receiver is taken by value), so the
\* rebased `self` of the result is dropped by both callers.
try_calculate(self) ==
    LET new_cputime == get_thread_cpu_time(self.tid)
        elapsed_ticks == (now - self.read_timer) * TICK_PER_MS
        cputime_slice == WrappingSub(new_cputime, self.last_cputime)
    IN  [overflows |-> SubOverflows(new_cputime, self.last_cputime),
         new_cputime |-> new_cputime,
         self |-> [self EXCEPT !.read_timer = now, !.last_cputime = new_cputime],
         usage |-> RatioAsU64(cputime_slice, elapsed_ticks)]

\* ----------------------------------------------------------- full refresh
\* Lines 129-141: the tracked population is rebuilt over the enumerated ids,
\* an id that has a tracker keeps it (Entry::Occupied => o.remove()), any
\* other id gets a new one; what is left of the old map is dropped.
RebuildAllMerging(old, threads) ==
    [tid \in threads \cup DOMAIN old |->
        IF tid \in DOMAIN old THEN old[tid] ELSE NewTracker(tid)]
RebuildAll(old, threads) ==
    [tid \in threads |-> IF tid \in DOMAIN old THEN old[tid] ELSE NewTracker(tid)]

\* Lines 151-157: the same for the hot population over the kept ids.
RebuildTopMerging(old, kept) ==
    [tid \in kept \cup DOMAIN old |->
        IF tid \in DOMAIN old THEN old[tid] ELSE NewTracker(tid)]
RebuildTop(old, kept) ==
    [tid \in kept |-> IF tid \in DOMAIN old THEN old[tid] ELSE NewTracker(tid)]

\* Line 148: the comparator b.partial_cmp(a): an entry with usage x may stand
\* before one with usage y when x >= y (descending).
SortsBeforeAscending(x, y) == x <= y
SortsBefore(x, y) == x >= y

\* Lines 142-150: top_threads holds one (tid, usage) pair per tracker, in the
\* map's iteration order; sort_unstable_by orders it by the comparator, ties
\* in any order, and truncate(5) keeps its first entries.  The order inside
\* the kept prefix is lost when line 157 collects it into a map, so the prefix
\* is built as a set: its next entry is any pair that the comparator lets
\* stand before every pair not placed yet.
\* Vec::truncate(len) on a vector of n entries leaves Min(n, len) of them.
truncate_noop(n, len) == n
truncate(n, len) == Min(n, len)

RECURSIVE sort_unstable_by(_, _, _)
sort_unstable_by(prefixes, pairs, len) ==
    IF len = 0 THEN prefixes
    ELSE sort_unstable_by(
            UNION {{p \cup {x} :
                     x \in {x \in pairs \ p :
                             \A y \in pairs \ p : SortsBefore(x[2], y[2])}} :
                   p \in prefixes},
            pairs, len - 1)

\* what top_threads can hold after lines 147-150, as sets of pairs
top_threads(pairs) ==
    sort_unstable_by({{}}, pairs, truncate(Cardinality(pairs), HOT_K))

NoRefresh ==
    [outcome |-> "none", count |-> 0,
     enum |-> {}, usage |-> EmptyMap, reads |-> EmptyMap, time |-> 0, gen |-> 0,
     prev_enum |-> {}, prev_reads |-> EmptyMap, prev_time |-> 0, prev_gen |-> 0,
     attempt |-> -1, prev_attempt |-> -1]

\* ----------------------------------------------------------- monitor_thread
WorkerAlive == wpc \notin {"exited", "panicked", "send_failed"}
\* the handle's fields (Sender, Receiver) exist until the handle is dropped
HandleFields == owner_pc \notin {"dropped", "panicked"}

\* Line 119: while !stop.load(Acquire)
WorkerLoopHead ==
    /\ wpc = "loop"
    /\ wpc' = IF stop THEN "exited" ELSE "try_recv"
    /\ UNCHANGED <<kernelVars, overflow_checks, ownerVars, stop, ctl_slot, ctl_taken, util_queue,
                   current_pid, last_full_update, all_trackers, top_trackers, now,
                   budget, applied, published, refresh>>

\* Lines 122-123: HashMap::clear
clear_noop(trackers) == trackers
clear(trackers) == EmptyMap

\* Lines 120-126: receiver.try_recv() takes the message of a blocked send, if
\* there is one, and the retarget is applied; then `if let Some(pid)`.
WorkerTryRecv ==
    /\ wpc = "try_recv"
    /\ IF ctl_slot # <<>>
       THEN /\ current_pid' = ctl_slot[1]
            /\ all_trackers' = clear(all_trackers)
            /\ top_trackers' = clear(top_trackers)
            /\ ctl_slot' = <<>>
            /\ ctl_taken' = TRUE
            /\ applied' = Append(applied, ctl_slot[1])
       ELSE UNCHANGED <<current_pid, all_trackers, top_trackers, ctl_slot,
                        ctl_taken, applied>>
    /\ wpc' = IF current_pid' = None THEN "sleep" ELSE "full_update"
    /\ refresh' = [refresh EXCEPT !.outcome = "none"]
    /\ UNCHANGED <<kernelVars, overflow_checks, ownerVars, stop, util_queue, last_full_update, now,
                   budget, published>>

\* Lines 127-161.
WorkerFullUpdate ==
    /\ wpc = "full_update"
    /\ LET threads == get_thread_ids(Unwrap(current_pid)) IN
       IF now - last_full_update < FULL_UPDATE_MS
       THEN /\ refresh' = [refresh EXCEPT !.outcome = "not_due"]
            /\ wpc' = "publish"
            /\ UNCHANGED <<all_trackers, top_trackers, last_full_update,
                           overflow_checks>>
       ELSE IF threads = None
       THEN /\ refresh' = [refresh EXCEPT !.outcome = "failed",
                                           !.attempt = now, !.prev_attempt = refresh.attempt]
            /\ wpc' = "publish"
            /\ UNCHANGED <<all_trackers, top_trackers, last_full_update,
                           overflow_checks>>
       ELSE LET rebuilt == RebuildAll(all_trackers, Unwrap(threads))
                samples == [tid \in DOMAIN rebuilt |-> try_calculate(rebuilt[tid])]
                pairs == {<<tid, samples[tid].usage>> : tid \in DOMAIN rebuilt}
                overflows == \E tid \in DOMAIN rebuilt : samples[tid].overflows
            IN  \E checks \in Builds :
                /\ overflow_checks' = IF overflows THEN Some(checks) ELSE overflow_checks
                /\ IF overflows /\ checks
                   THEN /\ wpc' = "panicked"
                        /\ refresh' = [refresh EXCEPT !.outcome = "panic",
                                           !.attempt = now, !.prev_attempt = refresh.attempt]
                        /\ UNCHANGED <<all_trackers, top_trackers, last_full_update>>
                   ELSE \E kept \in top_threads(pairs) :
                        /\ all_trackers' = rebuilt
                        /\ top_trackers' = RebuildTop(top_trackers, {p[1] : p \in kept})
                        /\ last_full_update' = now
                        /\ wpc' = "publish"
                        /\ refresh' =
                             [outcome |-> "ok", count |-> Min(refresh.count + 1, 3),
                              enum |-> Unwrap(threads),
                              usage |-> [tid \in DOMAIN rebuilt |-> samples[tid].usage],
                              reads |-> [tid \in DOMAIN rebuilt |-> samples[tid].new_cputime],
                              time |-> now, gen |-> Len(applied),
                              prev_enum |-> refresh.enum, prev_reads |-> refresh.reads,
                              prev_time |-> refresh.time, prev_gen |-> refresh.gen,
                              attempt |-> now, prev_attempt |-> refresh.attempt]
    /\ UNCHANGED <<kernelVars, ownerVars, stop, ctl_slot, ctl_taken, util_queue,
                   current_pid, now, budget, applied, published>>

\* Lines 163-169: the maximum over the hot population's samples is sent on the
\* result channel; send fails once the handle's Receiver is gone, and the
\* unwrap then panics.
WorkerPublish ==
    /\ wpc = "publish"
    /\ LET samples == [tid \in DOMAIN top_trackers |-> try_calculate(top_trackers[tid])]
           usages == {samples[tid].usage : tid \in DOMAIN top_trackers}
           max_usage == IF usages = {} THEN 0
                        ELSE CHOOSE u \in usages : \A w \in usages : w <= u
           overflows == \E tid \in DOMAIN top_trackers : samples[tid].overflows
       IN  \E checks \in Builds :
           /\ overflow_checks' = IF overflows THEN Some(checks) ELSE overflow_checks
           /\ IF overflows /\ checks
              THEN /\ wpc' = "panicked"
                   /\ UNCHANGED <<util_queue, published>>
              ELSE IF ~HandleFields
              THEN /\ wpc' = "send_failed"
                   /\ UNCHANGED <<util_queue, published>>
              ELSE /\ util_queue' = Append(util_queue,
                           [val |-> max_usage, seq |-> published + 1, gen |-> Len(applied)])
                   /\ published' = published + 1
                   /\ wpc' = "sleep"
    /\ UNCHANGED <<kernelVars, ownerVars, stop, ctl_slot, ctl_taken, current_pid,
                   last_full_update, all_trackers, top_trackers, now, budget,
                   applied, refresh>>

\* Line 172: thread::sleep(300 ms).  The bound on sleeps does not hold back
\* the last sleep of a worker that was asked to stop.
WorkerSleep ==
    /\ wpc = "sleep"
    /\ budget.sleeps > 0 \/ stop
    /\ now' = now + SLEEP_MS
    /\ budget' = [budget EXCEPT !.sleeps = IF @ > 0 THEN @ - 1 ELSE 0]
    /\ wpc' = "loop"
    /\ UNCHANGED <<kernelVars, overflow_checks, ownerVars, stop, ctl_slot, ctl_taken, util_queue,
                   current_pid, last_full_update, all_trackers, top_trackers,
                   applied, published, refresh>>

\* ----------------------------------------------------------- ProcessMonitor
\* Line 68, flume::bounded(0): a send completes only when the receiver has
\* taken its message.
SendCompletesBuffered == TRUE
SendCompletes == ctl_taken

\* Line 99, Iterator::last: the accumulator after one more item.
KeepFirst(acc, item) == IF acc = None THEN Some(item) ELSE acc
KeepLast(acc, item) == Some(item)

\* Lines 90-92: set_pid(pid) starts sender.send(pid) and blocks.
SetPidCall(pid) ==
    /\ owner_pc = "idle"
    /\ budget.calls > 0
    /\ budget' = [budget EXCEPT !.calls = @ - 1]
    /\ owner_pc' = "set_pid"
    /\ ctl_slot' = <<pid>>
    /\ ctl_taken' = FALSE
    /\ calls' = Append(calls, pid)
    /\ util_ret' = NotPolled
    /\ UNCHANGED <<kernelVars, overflow_checks, workerVars, stop, util_queue, poll_last, returned,
                   applied, published, pub_at_ret, pub_at_prev_ret>>

\* send returned Ok(()): set_pid returns.
SetPidReturn ==
    /\ owner_pc = "set_pid"
    /\ SendCompletes
    /\ owner_pc' = "idle"
    /\ returned' = returned + 1
    /\ UNCHANGED <<kernelVars, overflow_checks, workerVars, stop, ctl_slot, ctl_taken, util_queue,
                   poll_last, util_ret, budget, calls, applied, published,
                   pub_at_ret, pub_at_prev_ret>>

\* send returned Err (the worker, and with it the Receiver, is gone): the
\* unwrap panics.
SetPidFail ==
    /\ owner_pc = "set_pid"
    /\ ~ctl_taken
    /\ ~WorkerAlive
    /\ owner_pc' = "panicked"
    /\ UNCHANGED <<kernelVars, overflow_checks, workerVars, stop, ctl_slot, ctl_taken, util_queue,
                   poll_last, util_ret, budget, calls, applied, returned, published,
                   pub_at_ret, pub_at_prev_ret>>

\* Lines 98-100: update_util_max() starts self.util_max.try_iter().last().
UpdateUtilMaxCall ==
    /\ owner_pc = "idle"
    /\ budget.calls > 0
    /\ budget' = [budget EXCEPT !.calls = @ - 1]
    /\ owner_pc' = "poll"
    /\ poll_last' = None
    /\ util_ret' = NotPolled
    /\ UNCHANGED <<kernelVars, overflow_checks, workerVars, stop, ctl_slot, ctl_taken, util_queue,
                   calls, applied, returned, published, pub_at_ret, pub_at_prev_ret>>

\* try_iter yields one more queued value.
UpdateUtilMaxNext ==
    /\ owner_pc = "poll"
    /\ util_queue # <<>>
    /\ poll_last' = KeepLast(poll_last, Head(util_queue))
    /\ util_queue' = Tail(util_queue)
    /\ UNCHANGED <<kernelVars, overflow_checks, workerVars, stop, ctl_slot, ctl_taken, owner_pc,
                   util_ret, budget, calls, applied, returned, published,
                   pub_at_ret, pub_at_prev_ret>>

\* try_iter ends (the channel is empty or disconnected): last() returns.
UpdateUtilMaxReturn ==
    /\ owner_pc = "poll"
    /\ util_queue = <<>>
    /\ util_ret' = [done |-> TRUE, value |-> poll_last]
    /\ poll_last' = None
    /\ owner_pc' = "idle"
    /\ pub_at_ret' = published
    /\ pub_at_prev_ret' = pub_at_ret
    /\ UNCHANGED <<kernelVars, overflow_checks, workerVars, stop, ctl_slot, ctl_taken, util_queue,
                   budget, calls, applied, returned, published>>

\* Lines 103-107 and 94-96: Drop::drop stores the stop flag ...
DropWithoutStop ==
    /\ owner_pc = "idle"
    /\ budget.calls = 0
    /\ owner_pc' = "dropping"
    /\ UNCHANGED <<kernelVars, overflow_checks, workerVars, stop, ctl_slot, ctl_taken, util_queue,
                   poll_last, util_ret, budget, calls, applied, returned, published,
                   pub_at_ret, pub_at_prev_ret>>
DropStop ==
    /\ owner_pc = "idle"
    /\ budget.calls = 0
    /\ owner_pc' = "dropping"
    /\ stop' = TRUE
    /\ UNCHANGED <<kernelVars, overflow_checks, workerVars, ctl_slot, ctl_taken, util_queue,
                   poll_last, util_ret, budget, calls, applied, returned, published,
                   pub_at_ret, pub_at_prev_ret>>

\* ... and then the fields are dropped: the Sender and the Receiver, with the
\* values still queued on it.
DropFields ==
    /\ owner_pc = "dropping"
    /\ owner_pc' = "dropped"
    /\ util_queue' = <<>>
    /\ UNCHANGED <<kernelVars, overflow_checks, workerVars, stop, ctl_slot, ctl_taken, poll_last,
                   util_ret, budget, calls, applied, returned, published,
                   pub_at_ret, pub_at_prev_ret>>

\* ------------------------------------------------------------------ kernel
\* The worker reads the kernel's state in its full refresh and in its publish
\* step only, and nothing else does: a kernel event is taken where the next
\* read will see it, right before one of the two steps.
KernelObserved == wpc \in {"full_update", "publish"}

\* A thread runs: its cumulative on-CPU time grows.
KernelRun(tid) ==
    /\ budget.env > 0
    /\ KernelObserved
    /\ tid \in alive
    /\ cputime' = [cputime EXCEPT ![tid] = @ + CpuQuantum]
    /\ budget' = [budget EXCEPT !.env = @ - 1]
    /\ UNCHANGED <<alive, overflow_checks, ownerVars, workerVars, stop, ctl_slot,
                   ctl_taken, util_queue, applied, published>>

\* A thread exits: its schedstat record is gone.
ThreadExit(tid) ==
    /\ budget.env > 0
    /\ KernelObserved
    /\ tid \in alive
    /\ alive' = alive \ {tid}
    /\ cputime' = [cputime EXCEPT ![tid] = 0]
    /\ budget' = [budget EXCEPT !.env = @ - 1]
    /\ UNCHANGED <<overflow_checks, ownerVars, workerVars, stop, ctl_slot,
                   ctl_taken, util_queue, applied, published>>

\* A thread starts (the kernel may reuse a thread id): its counter starts at 0.
ThreadSpawn(tid) ==
    /\ budget.env > 0
    /\ KernelObserved
    /\ tid \notin alive
    /\ alive' = alive \cup {tid}
    /\ cputime' = [cputime EXCEPT ![tid] = 0]
    /\ budget' = [budget EXCEPT !.env = @ - 1]
    /\ UNCHANGED <<overflow_checks, ownerVars, workerVars, stop, ctl_slot,
                   ctl_taken, util_queue, applied, published>>

\* ------------------------------------------------------------ specification
\* ProcessMonitor::new (lines 67-88) and the locals of monitor_thread (lines
\* 114-117); process A starts with its first k threads, process B with its one.
InitWith(b, sizes) ==
    /\ \E k \in sizes : alive = (1..k) \cup {PidB}
    /\ cputime = [tid \in Tids |-> IF tid \in alive THEN CpuQuantum ELSE 0]
    /\ overflow_checks = None
    /\ owner_pc = "idle"
    /\ stop = FALSE
    /\ ctl_slot = <<>>
    /\ ctl_taken = FALSE
    /\ util_queue = <<>>
    /\ poll_last = None
    /\ util_ret = NotPolled
    /\ wpc = "loop"
    /\ current_pid = None
    /\ last_full_update = 0
    /\ all_trackers = EmptyMap
    /\ top_trackers = EmptyMap
    /\ now = 0
    /\ budget = b
    /\ calls = <<>>
    /\ applied = <<>>
    /\ returned = 0
    /\ published = 0
    /\ pub_at_ret = 0
    /\ pub_at_prev_ret = 0
    /\ refresh = NoRefresh

Init == InitWith([calls |-> MaxCalls, env |-> MaxEnv, sleeps |-> MaxSleeps],
                 {StartThreads})
InitTrack == InitWith([calls |-> TrackCalls, env |-> TrackEnv, sleeps |-> TrackSleeps],
                      {StartThreads, NumTids - 1})
InitLong == InitWith([calls |-> TrackCalls, env |-> TrackEnv, sleeps |-> LongSleeps],
                     {LongThreads})

Next ==
    \/ WorkerLoopHead
    \/ WorkerTryRecv
    \/ WorkerFullUpdate
    \/ WorkerPublish
    \/ WorkerSleep
    \/ \E pid \in Targets : SetPidCall(pid)
    \/ SetPidReturn
    \/ SetPidFail
    \/ UpdateUtilMaxCall
    \/ UpdateUtilMaxNext
    \/ UpdateUtilMaxReturn
    \/ DropStop
    \/ DropFields
    \/ \E tid \in Tids : KernelRun(tid)
    \/ \E tid \in Tids : ThreadExit(tid)
    \/ \E tid \in Tids : ThreadSpawn(tid)

\* The worker and the kernel with an owner that only retargets: the tracked
\* and the hot population depend on nothing else the owner does.  The worker
\* meets the owner in try_recv only, so a call is taken right before that step
\* and returns right after it.
TrackSetPidCall(pid) == wpc = "try_recv" /\ SetPidCall(pid)
TrackSetPidReturn == wpc \in {"full_update", "sleep"} /\ SetPidReturn

NextTrack ==
    \/ WorkerLoopHead
    \/ WorkerTryRecv
    \/ WorkerFullUpdate
    \/ WorkerPublish
    \/ WorkerSleep
    \/ \E pid \in Targets : TrackSetPidCall(pid)
    \/ TrackSetPidReturn
    \/ \E tid \in Tids : KernelRun(tid)
    \/ \E tid \in Tids : ThreadExit(tid)
    \/ \E tid \in Tids : ThreadSpawn(tid)

\* The worker is a thread of its own: the scheduler runs it, and its sleep
\* returns.
WorkerStep ==
    WorkerLoopHead \/ WorkerTryRecv \/ WorkerFullUpdate \/ WorkerPublish \/ WorkerSleep

Spec == Init /\ [][Next]_vars
SpecFair == Init /\ [][Next]_vars /\ WF_vars(WorkerStep)
SpecTrack == InitTrack /\ [][NextTrack]_vars
SpecLong == InitLong /\ [][NextTrack]_vars

\* ------------------------------------------------------------------ claims
\* a value was returned by the last update_util_max
Polled == util_ret.done /\ util_ret.value # None
PolledValue == Unwrap(util_ret.value)
\* the handle has not begun to be dropped
HandleAlive == owner_pc \notin {"dropping", "dropped"}
\* the state a successful full refresh leaves, until the next iteration begins
Refreshed == refresh.outcome = "ok"
Keys(trackers) == DOMAIN trackers

\* C1: once a set_pid call has returned, no later update_util_max returns a
\* value that the worker computed while a previous target was current: the
\* value returned was computed after the worker had applied the retarget of
\* the last set_pid call that returned, or at least for the target that call
\* set.  (The owner is one thread: returned does not change between the call
\* of update_util_max and the state its result is recorded in.)
C1_RetargetAtomic ==
    Polled => \/ PolledValue.gen >= returned
              \/ applied[PolledValue.gen] = calls[returned]

\* C2: after set_pid(None) has returned and until the next set_pid call, every
\* update_util_max returns None.
C2_NoValueWhileIdle ==
    (util_ret.done /\ returned > 0 /\ calls[returned] = None) => util_ret.value = None

\* C3: update_util_max never waits for the worker; it returns None exactly
\* when nothing was published since the previous update_util_max returned;
\* otherwise it returns the value published last, which no earlier call
\* returned or discarded, and leaves nothing on the channel that was queued
\* before it returned.
C3_DrainToLatest ==
    /\ owner_pc = "poll" => (util_queue # <<>> \/ ENABLED UpdateUtilMaxReturn)
    /\ util_ret.done =>
        /\ (util_ret.value = None) <=> (pub_at_ret = pub_at_prev_ret)
        /\ util_ret.value # None =>
            /\ PolledValue.seq = pub_at_ret
            /\ PolledValue.seq > pub_at_prev_ret
        /\ \A i \in 1..Len(util_queue) : util_queue[i].seq > pub_at_ret
C3_Witness == Polled /\ pub_at_ret >= pub_at_prev_ret + 2

\* C4: set_pid does not return before the worker has taken its value; the
\* worker applies exactly the values of the calls, once each and in call
\* order; at most one call is pending, and a value is in the channel only
\* while its caller is blocked in set_pid.
C4_Rendezvous ==
    /\ returned <= Len(applied)
    /\ Len(applied) <= Len(calls)
    /\ applied = SubSeq(calls, 1, Len(applied))
    /\ Len(calls) <= Len(applied) + 1
    /\ ctl_slot # <<>> =>
        /\ owner_pc \in {"set_pid", "panicked"}
        /\ ctl_slot = <<calls[Len(calls)]>>
        /\ Len(applied) = Len(calls) - 1
    /\ owner_pc = "idle" => returned = Len(calls)
C4_Witness == returned >= 2 /\ applied[1] # applied[2] /\ owner_pc = "idle"

\* C5: while the handle is alive the worker neither terminates nor fails, and
\* no set_pid call fails.
C5_SetPidCompletes == HandleAlive => (WorkerAlive /\ owner_pc # "panicked")

\* C6: the hot population never holds more than 5 thread ids.
C6_HotAtMostFive == Cardinality(Keys(top_trackers)) <= HOT_K
C6_Witness ==
    /\ Refreshed
    /\ Cardinality(Keys(all_trackers)) > HOT_K
    /\ Cardinality(Keys(top_trackers)) = HOT_K

\* C7: between worker steps every thread id of the hot population is a thread
\* id of the tracked population.
C7_HotSubsetOfTracked == Keys(top_trackers) \subseteq Keys(all_trackers)
C7_Witness ==
    /\ refresh.outcome = "failed"
    /\ Keys(top_trackers) # {}
    /\ Len(applied) >= 1

\* C8: after a successful full refresh the tracked population's ids are
\* exactly the enumerated ids, and an id enumerated by the previous successful
\* refresh but not by this one is in neither population.
C8_Eviction ==
    Refreshed =>
        /\ Keys(all_trackers) = refresh.enum
        /\ \A tid \in refresh.prev_enum \ refresh.enum :
              tid \notin Keys(all_trackers) /\ tid \notin Keys(top_trackers)
C8_Witness == Refreshed /\ refresh.prev_enum \ refresh.enum # {}

\* C9: after a successful full refresh over n tracked threads the hot
\* population holds exactly min(5, n) ids, and no id left out of it had a
\* ranking sample strictly greater than that of an id kept in it.
C9_TopK ==
    Refreshed =>
        /\ Cardinality(Keys(top_trackers)) = Min(HOT_K, Cardinality(Keys(all_trackers)))
        /\ \A kept \in Keys(top_trackers) :
           \A left \in Keys(all_trackers) \ Keys(top_trackers) :
              refresh.usage[left] <= refresh.usage[kept]
C9_Witness ==
    /\ Refreshed
    /\ \E kept \in Keys(top_trackers) :
       \E left \in Keys(all_trackers) \ Keys(top_trackers) :
          refresh.usage[left] < refresh.usage[kept]

\* C10: when a thread id is enumerated by two consecutive successful full
\* refreshes with no retarget in between, its ranking sample in the second is
\* (counter read at the second - counter read at the first) / (time between
\* the two refreshes).
C10_Continuity ==
    (Refreshed /\ refresh.count >= 2 /\ refresh.gen = refresh.prev_gen) =>
        \A tid \in refresh.enum \cap refresh.prev_enum :
            refresh.usage[tid] =
                RatioAsU64(WrappingSub(refresh.reads[tid], refresh.prev_reads[tid]),
                           (refresh.time - refresh.prev_time) * TICK_PER_MS)

\* C11: a vanished thread never halts monitoring and contributes no CPU time:
\* whenever the worker is about to sample the hot population and a hot
\* tracker with a baseline last_cputime > 0 belongs to a thread whose counter
\* now reads 0, the sample completes without an overflow and is 0.
C11_VanishedThreadSafe ==
    wpc = "publish" =>
        \A tid \in Keys(top_trackers) :
            (top_trackers[tid].last_cputime > 0 /\ get_thread_cpu_time(tid) = 0) =>
                /\ ~try_calculate(top_trackers[tid]).overflows
                /\ try_calculate(top_trackers[tid]).usage = 0

C13_CooperativeShutdown ==
    /\ [](owner_pc \in {"dropping", "dropped"} => stop)
    /\ [][stop => ~(wpc = "loop" /\ wpc' = "try_recv")]_vars
    /\ (owner_pc = "dropped") ~> ~WorkerAlive
C13_Witness == owner_pc = "dropped" /\ wpc = "exited" /\ current_pid # None

\* C14: a retarget is applied before anything else in the iteration that
\* accepts it: the target is the value accepted last, every tracker the worker
\* holds was created after the last acceptance, and so every value published
\* is computed only from trackers created after the last acceptance.
C14_RetargetFirst ==
    /\ [](/\ Len(applied) > 0 => current_pid = applied[Len(applied)]
          /\ \A tid \in Keys(all_trackers) : all_trackers[tid].born = Len(applied)
          /\ \A tid \in Keys(top_trackers) : top_trackers[tid].born = Len(applied))
    /\ [][published' = published + 1 =>
            \A tid \in Keys(top_trackers) : top_trackers[tid].born = Len(applied)]_vars
C14_Witness ==
    /\ Refreshed
    /\ refresh.count >= 2
    /\ refresh.prev_gen < refresh.gen
    /\ applied[refresh.prev_gen] = applied[refresh.gen]
    /\ wpc = "sleep"

\* C15: sampling rebases the tracker: when the worker has sampled the hot
\* population and published (it is at its sleep), every tracker stored in the
\* hot population has the time of that sample as its read_timer and the
\* counter read by that sample as its last_cputime.
C15_SamplingRebases ==
    wpc = "sleep" =>
        \A tid \in Keys(top_trackers) :
            /\ top_trackers[tid].read_timer = now
            /\ top_trackers[tid].last_cputime = get_thread_cpu_time(tid)

\* the maximum of the samples of the hot population, 0 when it is empty
HotMax ==
    LET usages == {try_calculate(top_trackers[tid]).usage : tid \in Keys(top_trackers)}
    IN  IF usages = {} THEN 0 ELSE CHOOSE u \in usages : \A w \in usages : w <= u

\* C16: per-iteration publication: in an iteration with a target set (after
\* the retarget of that iteration, if any) the worker goes through the full
\* refresh step to the publish step, whatever the refresh step did, and there
\* sends exactly one value, the maximum of the hot population's samples (0
\* when it is empty), before it sleeps; with no target set it goes straight to
\* its sleep; and nothing is published anywhere else.
C16_OnePublishPerIteration ==
    [][/\ (wpc = "try_recv" /\ wpc' # wpc) =>
             wpc' = (IF current_pid' = None THEN "sleep" ELSE "full_update")
       /\ (wpc = "full_update" /\ wpc' # wpc) => wpc' = "publish"
       /\ (wpc = "publish" /\ wpc' # wpc) =>
             /\ wpc' = "sleep"
             /\ published' = published + 1
             /\ Len(util_queue') = Len(util_queue) + 1
             /\ util_queue'[Len(util_queue')].val = HotMax
       /\ published' # published => wpc = "publish"]_vars

\* C17: the worker's publish never fails: the worker never ends by the failed
\* send of a utilization value (a send after the handle, and with it the
\* result channel's Receiver, was destroyed).
C17_PublishNeverFails == wpc # "send_failed"

\* the baseline of a tracker is the counter and the time read now
FreshBaseline(tracker) ==
    /\ tracker.last_cputime = get_thread_cpu_time(tracker.tid)
    /\ tracker.read_timer = now

\* C18: no stale baseline across a gap: in a successful full refresh, a
\* thread id that was enumerated by the previous successful refresh with no
\* retarget since keeps its tracker in the tracked population, and a thread
\* id that was in the hot population with no retarget since keeps its tracker
\* there; every other id of either population (new, or back after it was
\* absent from an enumeration, out of the top 5, or cleared by a retarget)
\* gets a tracker whose baseline is read in this refresh.
C18_NoStaleBaseline ==
    [][(wpc = "full_update" /\ refresh'.outcome = "ok") =>
         LET continuous == refresh.count > 0 /\ refresh.gen = Len(applied) IN
         /\ \A tid \in Keys(all_trackers') :
              IF continuous /\ tid \in refresh.enum
              THEN tid \in Keys(all_trackers) /\ all_trackers'[tid] = all_trackers[tid]
              ELSE FreshBaseline(all_trackers'[tid])
         /\ \A tid \in Keys(top_trackers') :
              IF continuous /\ tid \in Keys(top_trackers)
              THEN top_trackers'[tid] = top_trackers[tid]
              ELSE FreshBaseline(top_trackers'[tid])]_vars
C18_Witness ==
    /\ Refreshed
    /\ wpc = "publish"
    /\ refresh.gen > refresh.prev_gen
    /\ \E tid \in refresh.enum \cap refresh.prev_enum :
          /\ tid \in Keys(top_trackers)
          /\ FreshBaseline(all_trackers[tid])
          /\ refresh.prev_time < now

\* C19: bounded enumeration cost: any two enumeration attempts, successful or
\* failed, are at least one second apart, and the worker enumerates only with
\* a target set and at least one second after the last full refresh (or after
\* its start).
C19_EnumerationSpacing ==
    /\ [](refresh.prev_attempt >= 0 =>
            refresh.attempt - refresh.prev_attempt >= FULL_UPDATE_MS)
    /\ [][refresh'.attempt # refresh.attempt =>
            /\ current_pid # None
            /\ now - last_full_update >= FULL_UPDATE_MS]_vars

\* C20: guarded division: when the worker is about to sample the hot
\* population and no time has elapsed since a hot tracker's baseline, the
\* sample of that tracker is 0 whatever the CPU-time delta is; and no
\* saturated value is ever on the result channel.
C20_GuardedDivision ==
    /\ wpc = "publish" =>
          \A tid \in Keys(top_trackers) :
              now = top_trackers[tid].read_timer =>
                  try_calculate(top_trackers[tid]).usage = 0
    /\ \A i \in 1..Len(util_queue) : util_queue[i].val < U64_MAX

====
